---- MODULE Spec2Model ----
(***************************************************************************)
(* The spaced-repetition scheduler of src/lib/spacedRepetition.ts and the  *)
(* review step of the student dashboard (src/app/page.tsx, reviewCard)     *)
(* that feeds it one card and writes its result to the card store; and the *)
(* handlers of the page around it: the teacher adding a word with its      *)
(* card, the student starting a practice session, the session's queue      *)
(* while the store answers, and the page's sign-in state.                  *)
(*                                                                         *)
(* Numbers.  ease is a JavaScript number, an IEEE 754 double, that the     *)
(* code changes by adding or subtracting 0.05 / 0.2 and clamping, and      *)
(* multiplies by the interval.  The model computes with the doubles        *)
(* themselves, rounding included: 2.5 + 0.05 + 0.05 is 2.5999999999999996, *)
(* not 2.6 (see Numbers below for how a double is held).                   *)
(*                                                                         *)
(* Time.  A Date holds a UTC time value; here it is a whole number of      *)
(* hours since 2024-01-01T00:00Z.  The local-time fields that getDate and  *)
(* setDate work on depend on the time zone of the runtime, which is part   *)
(* of the state (zone).                                                    *)
(***************************************************************************)
EXTENDS Integers, Sequences, FiniteSets, TLC

VARIABLES
    card,     \* the review_cards row of one card in the store
    cards,    \* per practice session, the cards it loaded and has not reviewed
    clock,    \* the wall clock
    zone,     \* the time zone of the runtime
    last,     \* the latest call of the scheduler
    prev,     \* the call before it, when last repeats its card and grade
    grades,   \* the grades of the reviews written to the store, in order
    origin,   \* the row as it was when the behaviour began
    fresh,    \* the row began as a newly created card
    budget,   \* the number of reviews that may be written
    ticks,    \* the number of times the clock moved on between calls
    lesson_words,  \* the lesson_words table of the store
    review_cards,  \* the review_cards table of the store
    toast,         \* per page, the message it shows
    showAnswer,    \* the answer of the current card is revealed
    busy,          \* a handler of the dashboard is running
    updates,       \* the store updates sent and not yet answered
    written,       \* the ids of the cards the store has updated, in order
    session,       \* the signed-in user of the page, if any
    profile,       \* the user whose profile the page holds, if any
    loading,       \* the page shows its spinner
    selectedLesson, \* the lesson the student dashboard practises, if any
    fetches,       \* the session and profile queries sent and not yet answered
    user           \* the user signed in to the auth client of the browser, if any

\* the state of the pages outside one card's review
pageVars ==
    <<lesson_words, review_cards, toast, showAnswer, busy, updates, written,
      session, profile, loading, selectedLesson, fetches, user>>

vars ==
    <<card, cards, clock, zone, last, prev, grades, origin, fresh, budget, ticks,
      pageVars>>

----------------------------------------------------------------------------
(* Bounds of the model *)

\* reviews written to the store for a card that started as a new card
MaxReviews == 4
\* reviews written to the store for a card that started in an arbitrary
\* stored state
MaxCalls == 1
\* advances of the wall clock in one behaviour
MaxTicks == 1
\* reviews written to the store by two practice sessions together
MaxWrites == 3
\* words a teacher adds in one behaviour
MaxWords == 2
\* queries of the page in flight at once
MaxFetches == 2

----------------------------------------------------------------------------
(* Values *)

\* null / undefined of a nullable numeric column
Null == -1

\* a due_at column that holds no timestamp
NullDate == [Y |-> 0, M |-> 0, D |-> 0, h |-> 0]

Grade == {"again", "hard", "good"}

\* the time value of an invalid Date (no instant of the model is negative)
NaN == -1

\* what toISOString throws on an invalid Date
RangeError == [error |-> "RangeError: Invalid time value"]

\* an absent value read as zero, whatever the default
CoalesceZero(value, dflt) == IF value = Null THEN 0 ELSE value

\* value ?? dflt
Coalesce(value, dflt) == IF value = Null THEN dflt ELSE value

----------------------------------------------------------------------------
(* The calendar of Date: day numbers count from 2024-01-01 (day 0) *)

HoursPerDay == 24

\* the years the model's clock can reach
Years == 2024 .. 2029

IsLeap(y) == (y % 4 = 0 /\ y % 100 # 0) \/ y % 400 = 0

DaysInYear(y) == IF IsLeap(y) THEN 366 ELSE 365

\* m is a JavaScript month, 0 = January
DaysInMonth(y, m) ==
    IF m = 1 THEN (IF IsLeap(y) THEN 29 ELSE 28)
    ELSE IF m \in {3, 5, 8, 10} THEN 30 ELSE 31

RECURSIVE DaysBeforeYear(_)
DaysBeforeYear(y) ==
    IF y <= 2024 THEN 0 ELSE DaysBeforeYear(y - 1) + DaysInYear(y - 1)

RECURSIVE DaysBeforeMonth(_, _)
DaysBeforeMonth(y, m) ==
    IF m = 0 THEN 0 ELSE DaysBeforeMonth(y, m - 1) + DaysInMonth(y, m - 1)

RECURSIVE YearFrom(_, _)
YearFrom(y, d) == IF d < DaysInYear(y) THEN y ELSE YearFrom(y + 1, d - DaysInYear(y))

RECURSIVE MonthFrom(_, _, _)
MonthFrom(y, m, d) ==
    IF d < DaysInMonth(y, m) THEN m ELSE MonthFrom(y, m + 1, d - DaysInMonth(y, m))

\* the day number on which year y, and month m of year y, begin
YearStart == [y \in Years |-> DaysBeforeYear(y)]
MonthStart == [y \in Years |-> [m \in 0 .. 11 |-> DaysBeforeYear(y) + DaysBeforeMonth(y, m)]]

\* the calendar fields of every day number of Years
Calendar ==
    [d \in 0 .. (DaysBeforeYear(2030) - 1) |->
        LET y == YearFrom(2024, d)
            m == MonthFrom(y, 0, d - DaysBeforeYear(y))
        IN  [year |-> y, month |-> m,
             date |-> d - DaysBeforeYear(y) - DaysBeforeMonth(y, m) + 1]]

DayFromYear(y) == YearStart[y]

YearFromDay(d) == Calendar[d].year

MonthFromDay(d) == Calendar[d].month

\* day of the month, 1-based
DateFromDay(d) == Calendar[d].date

\* 0 = Sunday; 2024-01-01 was a Monday
WeekDay(d) == (d + 1) % 7

Day(t) == t \div HoursPerDay

TimeWithinDay(t) == t % HoursPerDay

\* MakeDay of ECMAScript for an in-range month: dt may exceed the month's length
MakeDay(y, m, dt) == MonthStart[y][m] + dt - 1

MakeDate(day, time) == day * HoursPerDay + time

----------------------------------------------------------------------------
(* Time zones of the runtime *)

Zones == {"UTC", "Europe/London", "Asia/Tokyo"}

\* the last Sunday of month m of year y, as a day number
LastSunday(y, m) ==
    CHOOSE d \in MakeDay(y, m, 1) .. MakeDay(y, m, DaysInMonth(y, m)) :
        WeekDay(d) = 0 /\ d + 7 > MakeDay(y, m, DaysInMonth(y, m))

\* summer time runs from 01:00 UTC on the last Sunday of March to 01:00 UTC
\* on the last Sunday of October; the years the model's clock can reach
SummerTime ==
    [y \in 2024 .. 2029 |->
        [start |-> MakeDate(LastSunday(y, 2), 1), end |-> MakeDate(LastSunday(y, 9), 1)]]

DstStart(y) == SummerTime[y].start
DstEnd(y) == SummerTime[y].end

\* offset of local time from UTC at the UTC instant t, in hours
LocalTZA(z, t) ==
    IF z = "Asia/Tokyo" THEN 9
    ELSE IF z = "Europe/London"
         THEN LET y == YearFromDay(Day(t))
              IN  IF DstStart(y) <= t /\ t < DstEnd(y) THEN 1 ELSE 0
    ELSE 0

LocalTime(z, t) == t + LocalTZA(z, t)

\* a local time that a spring-forward transition skips
InGap(z, tl) ==
    /\ z = "Europe/London"
    /\ LET y == YearFromDay(Day(tl))
       IN  DstStart(y) <= tl /\ tl < DstStart(y) + 1

\* UTC(t) of ECMAScript: the instant of the local time tl.  A skipped local
\* time is read at the offset in force before the transition, a repeated one
\* as its earlier instant.
UTC(z, tl) ==
    IF z = "Asia/Tokyo" THEN tl - 9
    ELSE IF z = "Europe/London"
         THEN LET y == YearFromDay(Day(tl))
              IN  IF DstStart(y) + 1 <= tl /\ tl < DstEnd(y) + 1 THEN tl - 1 ELSE tl
    ELSE tl

\* getUTCDate in the place of getDate: the day of the month in UTC
getUTCDate(z, t) == DateFromDay(Day(t))

\* Date.prototype.getDate: day of the month in local time
getDate(z, t) == DateFromDay(Day(LocalTime(z, t)))

\* TimeClip: a Date holds no instant later than 100,000,000 days after
\* 1970-01-01, which is 19,723 days before day 0 here
DateLimit == 100000000 - 19723

\* Date.prototype.setDate: replaces the day of the month of the local time
\* of t by dt (which may run past the end of the month) and keeps the local
\* time of day; the Date becomes invalid when that is past the last instant
\* a Date can hold (the limit is taken to the day)
setDate(z, t, dt) ==
    LET tl == LocalTime(z, t)
        y == YearFromDay(Day(tl))
        m == MonthFromDay(Day(tl))
    IN  IF MakeDay(y, m, dt) >= DateLimit THEN NaN
        ELSE UTC(z, MakeDate(MakeDay(y, m, dt), TimeWithinDay(tl)))

\* Date.prototype.toISOString: the UTC calendar fields of t; throws on an
\* invalid Date
toISOString(t) ==
    IF t = NaN THEN RangeError
    ELSE [Y |-> YearFromDay(Day(t)), M |-> MonthFromDay(Day(t)) + 1,
          D |-> DateFromDay(Day(t)), h |-> TimeWithinDay(t)]

\* the instant an ISO timestamp names (what the store compares due_at by)
ParseISO(s) == MakeDate(MakeDay(s.Y, s.M - 1, s.D), s.h)

----------------------------------------------------------------------------
(* Numbers: the IEEE 754 doubles of the ease arithmetic *)

\* Every double the scheduler computes an ease with lies within a few units
\* in the last place of a decimal h/100.  Such a double x is held as the
\* integer h * EaseUnit + n, where x = (h * 2^57 + n) / (100 * 2^57) exactly:
\* n is the distance of x from h/100, in units of 2^-57 / 100.  The doubles
\* from 0.03125 up are whole multiples of 2^-57, so h * 2^57 + n is a
\* multiple of 100.  Two such integers compare as their doubles do.
EaseUnit == 2^20

\* the decimal, in hundredths, that the double x lies next to
Hundredths(x) == (x + EaseUnit \div 2) \div EaseUnit

\* the distance of the double x from that decimal
Residue(x) == x - Hundredths(x) * EaseUnit

RECURSIVE Pow2Mod(_, _)
Pow2Mod(k, m) == IF k = 0 THEN 1 % m ELSE (2 * Pow2Mod(k - 1, m)) % m

\* 2^57 modulo 100 * 2^j
Two57Mod == [m \in {100 * 2^j : j \in 0 .. 8} |-> Pow2Mod(57, m)]

\* the spacing of the doubles in the binade of (h * 2^57 + n) / (100 * 2^57),
\* in units of 2^-57: 2^-52 from 1 up to 2, 2^-51 from 2 up to 4, ...
Granule(h, n) ==
    IF h > 400 \/ (h = 400 /\ n >= 0) THEN 128
    ELSE IF h > 200 \/ (h = 200 /\ n >= 0) THEN 64
    ELSE IF h > 100 \/ (h = 100 /\ n >= 0) THEN 32
    ELSE IF h > 50 \/ (h = 50 /\ n >= 0) THEN 16
    ELSE IF h > 25 \/ (h = 25 /\ n >= 0) THEN 8
    ELSE IF h >= 13 THEN 4
    ELSE IF h >= 7 THEN 2
    ELSE 1

\* round to nearest, ties to even: the double nearest to the multiple
\* (h * 2^57 + n) / 100 of 2^-57
RoundToDouble(h, n) ==
    LET g == Granule(h, n)
        r == ((h * Two57Mod[200 * g] + n) % (200 * g)) \div 100
        low == r % g
        up == 2 * low > g \/ (2 * low = g /\ (r \div g) % 2 = 1)
    IN  h * EaseUnit + n + 100 * (IF up THEN g - low ELSE 0 - low)

\* the double a decimal literal h/100 of the source denotes
Doubles ==
    [h \in 4 .. 400 |->
        LET m == 100 * Granule(h, 0)
            r == (h * Two57Mod[m]) % m
        IN  h * EaseUnit + (IF 2 * r <= m THEN 0 - r ELSE m - r)]

Double(h) == Doubles[h]

\* x + y and x - y of two doubles
Plus(x, y) == RoundToDouble(Hundredths(x) + Hundredths(y), Residue(x) + Residue(y))
Minus(x, y) == RoundToDouble(Hundredths(x) - Hundredths(y), Residue(x) - Residue(y))

\* floor(log2(v)) for v >= 1
RECURSIVE Log2(_)
Log2(v) == IF v < 2 THEN 0 ELSE 1 + Log2(v \div 2)

\* k * d <= c * 2^s, computed in two digits of 14 bits (k < 2^27, d < 2^17)
TimesAtMost(k, d, c, s) ==
    LET B == 2^14
        low == (k % B) * d
        lhsHi == (k \div B) * d + low \div B
        lhsLo == low % B
        rhsHi == IF s >= 14 THEN c * 2^(s - 14) ELSE (c * 2^s) \div B
        rhsLo == IF s >= 14 THEN 0 ELSE (c * 2^s) % B
    IN  lhsHi < rhsHi \/ (lhsHi = rhsHi /\ lhsLo <= rhsLo)

\* the product cut off to an integer instead of rounded to the nearest
MathFloor(k, x) ==
    IF (k * Hundredths(x)) % 100 = 0 /\ Residue(x) < 0
    THEN (k * Hundredths(x)) \div 100 - 1
    ELSE (k * Hundredths(x)) \div 100

\* Math.round(k * x) for an integer k and a double x: the product is rounded
\* to a double, and that double to the nearest integer, halves going up.
\* With m the integer that k * h / 100 rounds to, the result is m unless
\* k * h / 100 is m - 1/2 exactly and x lies below h/100; then the product
\* lies below m - 1/2 and the result is m - 1, unless the product is so
\* close to m - 1/2 that it is rounded to the double m - 1/2 itself.
MathRound(k, x) ==
    LET h == Hundredths(x)
        n == Residue(x)
        tail == (k % 100) * h + 50
        m == (k \div 100) * h + tail \div 100
    IN  IF tail % 100 # 0 \/ n >= 0 THEN m
        ELSE IF TimesAtMost(k, 0 - n, 25, IF m = 1 THEN 4 ELSE Log2(2 * m - 1) + 5)
             THEN m
             ELSE m - 1

----------------------------------------------------------------------------
(* src/lib/spacedRepetition.ts *)

\* the decimal literals of the source, in hundredths
EaseDefault == 250
EaseMin == 130
EaseMaxAgain == 300
EaseMax == 320
EaseLapse == 20
EaseStep == 5

Min2(a, b) == IF a < b THEN a ELSE b
Max2(a, b) == IF a > b THEN a ELSE b

\* a clamp that lost its upper bound
clampNoUpper(value, min, max) == Max2(min, value)

\* Math.max(min, Math.min(max, value))
clamp(value, min, max) == Max2(min, Min2(max, value))

\* a lapse clamped to the ceiling of the successes
nextEaseOneCeiling(prevEase, grade) ==
    IF grade = "again"
    THEN clamp(Minus(prevEase, Double(EaseLapse)), Double(EaseMin), Double(EaseMax))
    ELSE clamp(IF grade = "good" THEN Plus(prevEase, Double(EaseStep))
                                 ELSE Minus(prevEase, Double(EaseStep)),
               Double(EaseMin), Double(EaseMax))

\* hard raising the ease as good does
nextEaseHardUp(prevEase, grade) ==
    IF grade = "again"
    THEN clamp(Minus(prevEase, Double(EaseLapse)), Double(EaseMin), Double(EaseMaxAgain))
    ELSE clamp(Plus(prevEase, Double(EaseStep)), Double(EaseMin), Double(EaseMax))

\* the ease clamped before the step is taken, not after
nextEaseClampFirst(prevEase, grade) ==
    IF grade = "again"
    THEN Minus(clamp(prevEase, Double(EaseMin), Double(EaseMaxAgain)), Double(EaseLapse))
    ELSE IF grade = "good"
         THEN Plus(clamp(prevEase, Double(EaseMin), Double(EaseMax)), Double(EaseStep))
         ELSE Minus(clamp(prevEase, Double(EaseMin), Double(EaseMax)), Double(EaseStep))

\* a success branch that lowers the ease on hard only
nextEaseElseUp(prevEase, grade) ==
    IF grade = "again"
    THEN clamp(Minus(prevEase, Double(EaseLapse)), Double(EaseMin), Double(EaseMaxAgain))
    ELSE clamp(IF grade = "hard" THEN Minus(prevEase, Double(EaseStep))
                                 ELSE Plus(prevEase, Double(EaseStep)),
               Double(EaseMin), Double(EaseMax))

\* the ease of lines 32 and 37-38
nextEase(prevEase, grade) ==
    IF grade = "again"
    THEN clamp(Minus(prevEase, Double(EaseLapse)), Double(EaseMin), Double(EaseMaxAgain))
    ELSE clamp(IF grade = "good" THEN Plus(prevEase, Double(EaseStep))
                                 ELSE Minus(prevEase, Double(EaseStep)),
               Double(EaseMin), Double(EaseMax))

\* a lapse that leaves the streak as it was
nextRepetitionsKept(prevReps, grade) == IF grade = "again" THEN prevReps ELSE prevReps + 1

\* hard ending the streak as again does
nextRepetitionsHardResets(prevReps, grade) == IF grade = "good" THEN prevReps + 1 ELSE 0

\* the repetitions of lines 33 and 39
nextRepetitions(prevReps, grade) == IF grade = "again" THEN 0 ELSE prevReps + 1

\* the fixed steps taken one success late
nextIntervalLate(prevInterval, repetitions, ease) ==
    IF repetitions = 2 THEN 1
    ELSE IF repetitions = 3 THEN 3
    ELSE MathRound(prevInterval, ease)

\* a first success that leaves the card due on the day of the review
nextIntervalSameDay(prevInterval, repetitions, ease) ==
    IF repetitions = 1 THEN 0
    ELSE IF repetitions = 2 THEN 3
    ELSE MathRound(prevInterval, ease)

\* a growth step that keeps the interval the card came with
nextIntervalFlat(prevInterval, repetitions, ease) ==
    IF repetitions = 1 THEN 1
    ELSE IF repetitions = 2 THEN 3
    ELSE prevInterval

\* the interval of lines 40-45, for a hard or good review
nextInterval(prevInterval, repetitions, ease) ==
    IF repetitions = 1 THEN 1
    ELSE IF repetitions = 2 THEN 3
    ELSE MathRound(prevInterval, ease)

\* hard counted as a failed review
nextTotalsHardFails(prevSuccess, prevFail, grade) ==
    IF grade = "good"
    THEN [totalSuccess |-> prevSuccess + 1, totalFail |-> prevFail]
    ELSE [totalSuccess |-> prevSuccess, totalFail |-> prevFail + 1]

\* a lapse that clears the success count as it clears the streak
nextTotalsLapseClears(prevSuccess, prevFail, grade) ==
    IF grade = "again"
    THEN [totalSuccess |-> 0, totalFail |-> prevFail + 1]
    ELSE [totalSuccess |-> prevSuccess + 1, totalFail |-> prevFail]

\* the lifetime counters of lines 35 and 46
nextTotals(prevSuccess, prevFail, grade) ==
    IF grade = "again"
    THEN [totalSuccess |-> prevSuccess, totalFail |-> prevFail + 1]
    ELSE [totalSuccess |-> prevSuccess + 1, totalFail |-> prevFail]

\* lines 49-50 and 56: now moved interval days on by setDate, as an ISO string
dueAfter(z, now, interval) == toISOString(setDate(z, now, getDate(z, now) + interval))

\* the return statement of lines 52-59: the object of the six fields, or the
\* exception toISOString threw while it was built
NextState(ease, interval, repetitions, due, totals) ==
    IF due = RangeError THEN RangeError
    ELSE [ease |-> ease,
          intervalDays |-> interval,
          repetitions |-> repetitions,
          dueAt |-> due,
          totalSuccess |-> totals.totalSuccess,
          totalFail |-> totals.totalFail]

\* the growth step taken with the ease the card came with
nextReviewAtOldEase(z, now, c, grade) ==
    LET prevEase == Coalesce(c.ease, Double(EaseDefault))
        prevInterval == Coalesce(c.interval_days, 0)
        repetitions == nextRepetitions(Coalesce(c.repetitions, 0), grade)
        totals == nextTotals(Coalesce(c.total_success, 0), Coalesce(c.total_fail, 0), grade)
        interval == IF grade = "again" THEN 1
                    ELSE nextInterval(prevInterval, repetitions, prevEase)
    IN  NextState(nextEase(prevEase, grade), interval, repetitions,
                  dueAfter(z, now, interval), totals)

\* a lapse that keeps the interval the card came with
nextReviewAtLapseKeepsInterval(z, now, c, grade) ==
    LET prevEase == Coalesce(c.ease, Double(EaseDefault))
        prevInterval == Coalesce(c.interval_days, 0)
        ease == nextEase(prevEase, grade)
        repetitions == nextRepetitions(Coalesce(c.repetitions, 0), grade)
        interval == IF grade = "again" THEN prevInterval
                    ELSE nextInterval(prevInterval, repetitions, ease)
        totals == nextTotals(Coalesce(c.total_success, 0), Coalesce(c.total_fail, 0), grade)
    IN  NextState(ease, interval, repetitions, dueAfter(z, now, interval), totals)

\* the body of nextReview (lines 19-59) for the reading now of the clock, in
\* the zone z
nextReviewAt(z, now, c, grade) ==
    LET prevEase == Coalesce(c.ease, Double(EaseDefault))
        prevInterval == Coalesce(c.interval_days, 0)
        prevReps == Coalesce(c.repetitions, 0)
        prevSuccess == Coalesce(c.total_success, 0)
        prevFail == Coalesce(c.total_fail, 0)
        ease == nextEase(prevEase, grade)
        repetitions == nextRepetitions(prevReps, grade)
        interval == IF grade = "again" THEN 1
                    ELSE nextInterval(prevInterval, repetitions, ease)
        totals == nextTotals(prevSuccess, prevFail, grade)
    IN  NextState(ease, interval, repetitions, dueAfter(z, now, interval), totals)

\* a review in the last hour of the local day scheduled as one of the next day
nextReviewByNight(c, grade) ==
    LET r == nextReviewAt(zone, clock, c, grade)
    IN  IF TimeWithinDay(LocalTime(zone, clock)) = HoursPerDay - 1
        THEN [r EXCEPT !.intervalDays = r.intervalDays + 1,
                       !.dueAt = dueAfter(zone, clock, r.intervalDays + 1)]
        ELSE r

\* nextReview(card, grade): now is new Date(), the wall clock at the call
nextReview(c, grade) == nextReviewAt(zone, clock, c, grade)

----------------------------------------------------------------------------
(* The card store row and the calls made on it *)

\* a new card that falls due a day after it was created
NewCardDueTomorrow ==
    [ease |-> Double(EaseDefault), interval_days |-> 0, repetitions |-> 0,
     due_at |-> toISOString(clock + HoursPerDay), total_success |-> 0,
     total_fail |-> 0]

\* the review card handleAddWord inserts for a new lesson word
NewCard ==
    [ease |-> Double(EaseDefault), interval_days |-> 0, repetitions |-> 0,
     due_at |-> toISOString(clock), total_success |-> 0, total_fail |-> 0]

\* stored learning states a review may find: every column is nullable, and
\* ease may lie outside the range the scheduler keeps it in
EaseIn == {Null} \cup {Double(h) : h \in {100, 145, 320, 350}}
IntervalIn == {Null, 7}
RepsIn == {Null, 1, 2, 5}
TotalsIn == {<<Null, Null>>, <<2, 1>>}

StoredCards ==
    {[ease |-> e, interval_days |-> i, repetitions |-> r, due_at |-> NullDate,
      total_success |-> t[1], total_fail |-> t[2]] :
        e \in EaseIn, i \in IntervalIn, r \in RepsIn, t \in TotalsIn}

\* the runtime's zone and the wall clock when the page opens
Starts ==
    {<<"UTC", MakeDate(MakeDay(2024, 0, 30), 22)>>,
     <<"UTC", MakeDate(MakeDay(2024, 11, 30), 9)>>,
     <<"Europe/London", MakeDate(MakeDay(2024, 2, 30), 0)>>,
     <<"Europe/London", MakeDate(MakeDay(2024, 9, 26), 0)>>,
     <<"Asia/Tokyo", MakeDate(MakeDay(2024, 1, 28), 20)>>}

\* hours the wall clock moves on by between two calls
TickHours == {1}

\* a row whose columns are all null
BlankCard ==
    [ease |-> Null, interval_days |-> Null, repetitions |-> Null,
     due_at |-> NullDate, total_success |-> Null, total_fail |-> Null]

\* the practice sessions (browser tabs or devices) of the student
Sessions == {"A", "B"}

\* no session has loaded a card
NoCards == [s \in Sessions |-> << >>]

\* null, where the value is otherwise a string (an id, a message)
Nil == "null"

\* the pages open in two browsers: a teacher's and a student's
Pages == {"teacher", "student"}

\* no page shows a message
NoToast == [p \in Pages |-> Nil]

\* no page state: empty tables, nobody signed in, nothing in flight
PageClosed ==
    /\ lesson_words = {} /\ review_cards = {} /\ toast = NoToast
    /\ showAnswer = FALSE /\ busy = FALSE /\ updates = << >> /\ written = << >>
    /\ session = Nil /\ profile = Nil /\ loading = FALSE /\ fetches = << >>
    /\ selectedLesson = Nil /\ user = session

\* last and prev before any call
NoCall ==
    [called |-> FALSE, card |-> BlankCard, grade |-> "again", now |-> 0,
     ok |-> FALSE, out |-> nextReviewAt("UTC", 0, BlankCard, "again")]

Init ==
    /\ \E s \in Starts : zone = s[1] /\ clock = s[2]
    /\ fresh \in BOOLEAN
    /\ card \in (IF fresh THEN {NewCard} ELSE StoredCards)
    /\ origin = card
    /\ budget = (IF fresh THEN MaxReviews ELSE MaxCalls)
    /\ cards = NoCards
    /\ last = NoCall
    /\ prev = NoCall
    /\ grades = << >>
    /\ ticks = 0
    /\ PageClosed

\* a store update that leaves the due_at column out
reviewCardKeepsDue(grade, ok) ==
    /\ Len(grades) < budget
    /\ \E next \in {nextReview(card, grade)} :
           /\ last' = [called |-> TRUE, card |-> card, grade |-> grade,
                       now |-> clock, ok |-> ok /\ next # RangeError, out |-> next]
           /\ prev' = IF last.called /\ last.card = card /\ last.grade = grade
                      THEN last ELSE NoCall
           /\ IF ok /\ next # RangeError
              THEN /\ card' = [ease |-> next.ease,
                               interval_days |-> next.intervalDays,
                               repetitions |-> next.repetitions,
                               due_at |-> card.due_at,
                               total_success |-> next.totalSuccess,
                               total_fail |-> next.totalFail]
                   /\ grades' = Append(grades, grade)
              ELSE UNCHANGED <<card, grades>>
    /\ UNCHANGED <<cards, clock, zone, origin, fresh, budget, ticks>>
    /\ UNCHANGED pageVars

\* a store update that leaves the repetitions column out
reviewCardDropsRepetitions(grade, ok) ==
    /\ Len(grades) < budget
    /\ \E next \in {nextReview(card, grade)} :
           /\ last' = [called |-> TRUE, card |-> card, grade |-> grade,
                       now |-> clock, ok |-> ok /\ next # RangeError, out |-> next]
           /\ prev' = IF last.called /\ last.card = card /\ last.grade = grade
                      THEN last ELSE NoCall
           /\ IF ok /\ next # RangeError
              THEN /\ card' = [ease |-> next.ease,
                               interval_days |-> next.intervalDays,
                               repetitions |-> card.repetitions,
                               due_at |-> next.dueAt,
                               total_success |-> next.totalSuccess,
                               total_fail |-> next.totalFail]
                   /\ grades' = Append(grades, grade)
              ELSE UNCHANGED <<card, grades>>
    /\ UNCHANGED <<cards, clock, zone, origin, fresh, budget, ticks>>
    /\ UNCHANGED pageVars

\* reviewCard(grade) in a session that has just loaded the card, so that its
\* current card is the row as stored: the scheduler is called on the current
\* card, and the store update of all six columns either succeeds (ok) or
\* returns an error, which leaves the row and the current card as they were.
\* An exception of the scheduler ends the handler before the update.
\* last records the call; prev records the call before it when this call
\* repeats its card and grade (a retry after a failed update).
reviewCard(grade, ok) ==
    /\ Len(grades) < budget
    /\ \E next \in {nextReview(card, grade)} :
           /\ last' = [called |-> TRUE, card |-> card, grade |-> grade,
                       now |-> clock, ok |-> ok /\ next # RangeError, out |-> next]
           /\ prev' = IF last.called /\ last.card = card /\ last.grade = grade
                      THEN last ELSE NoCall
           /\ IF ok /\ next # RangeError
              THEN /\ card' = [ease |-> next.ease,
                               interval_days |-> next.intervalDays,
                               repetitions |-> next.repetitions,
                               due_at |-> next.dueAt,
                               total_success |-> next.totalSuccess,
                               total_fail |-> next.totalFail]
                   /\ grades' = Append(grades, grade)
              ELSE UNCHANGED <<card, grades>>
    /\ UNCHANGED <<cards, clock, zone, origin, fresh, budget, ticks>>
    /\ UNCHANGED pageVars

\* the wall clock moves on between calls
Tick(d) ==
    /\ ticks < MaxTicks
    /\ clock' = clock + d
    /\ ticks' = ticks + 1
    /\ UNCHANGED <<card, cards, zone, last, prev, grades, origin, fresh, budget>>
    /\ UNCHANGED pageVars

Next ==
    \/ \E grade \in Grade, ok \in BOOLEAN : reviewCard(grade, ok)
    \/ \E d \in TickHours : Tick(d)

Spec == Init /\ [][Next]_vars

----------------------------------------------------------------------------
(* Two practice sessions on the same card *)

InitSessions ==
    /\ zone = "UTC"
    /\ clock = MakeDate(MakeDay(2024, 0, 30), 22)
    /\ fresh = TRUE
    /\ card = NewCard
    /\ origin = card
    /\ budget = MaxWrites
    /\ cards = NoCards
    /\ last = NoCall
    /\ prev = NoCall
    /\ grades = << >>
    /\ ticks = 0
    /\ PageClosed

\* loadCards in session s: the rows of the student are read, whether due or
\* not, and become the session's cards; a failed query leaves them as they
\* were
loadCards(s, ok) ==
    /\ cards' = IF ok THEN [cards EXCEPT ![s] = <<card>>] ELSE cards
    /\ UNCHANGED <<card, clock, zone, last, prev, grades, origin, fresh, budget, ticks>>
    /\ UNCHANGED pageVars

\* reviewCard(grade) in session s: the current card is the first of the
\* cards the session loaded, the scheduler is called on it as it was loaded,
\* and the update writes all six columns to the row of its id; on success
\* the session drops the card
reviewCardIn(s, grade, ok) ==
    /\ cards[s] # << >>
    /\ Len(grades) < budget
    /\ \E next \in {nextReview(Head(cards[s]), grade)} :
           /\ last' = [called |-> TRUE, card |-> Head(cards[s]), grade |-> grade,
                       now |-> clock, ok |-> ok /\ next # RangeError, out |-> next]
           /\ prev' = IF last.called /\ last.card = Head(cards[s]) /\ last.grade = grade
                      THEN last ELSE NoCall
           /\ IF ok /\ next # RangeError
              THEN /\ card' = [ease |-> next.ease,
                               interval_days |-> next.intervalDays,
                               repetitions |-> next.repetitions,
                               due_at |-> next.dueAt,
                               total_success |-> next.totalSuccess,
                               total_fail |-> next.totalFail]
                   /\ cards' = [cards EXCEPT ![s] = Tail(@)]
                   /\ grades' = Append(grades, grade)
              ELSE UNCHANGED <<card, cards, grades>>
    /\ UNCHANGED <<clock, zone, origin, fresh, budget, ticks>>
    /\ UNCHANGED pageVars

NextSessions ==
    \/ \E s \in Sessions, ok \in BOOLEAN : loadCards(s, ok)
    \/ \E s \in Sessions, grade \in Grade, ok \in BOOLEAN : reviewCardIn(s, grade, ok)

SpecSessions == InitSessions /\ [][NextSessions]_vars

----------------------------------------------------------------------------
(* A teacher adds words to lessons and a student starts practice sessions *)

\* the students of the teacher, and the lessons with their lessons.student_id
Students == {"ann", "ben"}
Lessons == {"L1", "L2", "L3"}
LessonStudent == [l \in Lessons |-> IF l = "L3" THEN "ben" ELSE "ann"]

\* what the teacher typed as the word, trimmed
Terms == {"", "kot"}

\* the row limit of the query of loadCards
QueryLimit == 100

\* a review_cards row: its id, its foreign keys and the learning state c
Row(id, word, student, c) ==
    [id |-> id, lesson_word_id |-> word, student_id |-> student,
     ease |-> c.ease, interval_days |-> c.interval_days,
     repetitions |-> c.repetitions, due_at |-> c.due_at,
     total_success |-> c.total_success, total_fail |-> c.total_fail]

\* the student ann has her dashboard open; the tables are empty
InitLessons ==
    /\ zone = "UTC"
    /\ clock = MakeDate(MakeDay(2024, 0, 30), 22)
    /\ fresh = TRUE
    /\ card = NewCard
    /\ origin = card
    /\ budget = 0
    /\ cards = NoCards
    /\ last = NoCall
    /\ prev = NoCall
    /\ grades = << >>
    /\ ticks = 0
    /\ lesson_words = {} /\ review_cards = {} /\ toast = NoToast
    /\ showAnswer = FALSE /\ busy = FALSE /\ updates = << >> /\ written = << >>
    /\ session = "ann" /\ profile = "ann" /\ loading = FALSE /\ fetches = << >>
    /\ selectedLesson = Nil /\ user = session

\* handleAddWord with lesson selected (and its student), term typed: an
\* empty term is refused; the word is inserted (wordOk) or the insert's error
\* shown; then the review card is inserted, its outcome (cardOk) not looked
\* at, and the success message shown
handleAddWord(lesson, term, wordOk, cardOk) ==
    /\ Cardinality(lesson_words) < MaxWords
    /\ IF term = ""
       THEN /\ toast' = [toast EXCEPT !["teacher"] = "Enter a word or phrase."]
            /\ UNCHANGED <<lesson_words, review_cards>>
       ELSE IF ~wordOk
       THEN /\ toast' = [toast EXCEPT !["teacher"] = "Could not add"]
            /\ UNCHANGED <<lesson_words, review_cards>>
       ELSE \E data \in {[id |-> Cardinality(lesson_words) + 1, lesson_id |-> lesson]} :
                /\ lesson_words' = lesson_words \cup {data}
                /\ review_cards' =
                       IF cardOk
                       THEN review_cards \cup
                                {Row(data.id, data.id, LessonStudent[lesson], NewCard)}
                       ELSE review_cards
                /\ toast' = [toast EXCEPT !["teacher"] = "Word added!"]
    /\ UNCHANGED <<card, cards, clock, zone, last, prev, grades, origin, fresh, budget, ticks>>
    /\ UNCHANGED <<showAnswer, busy, updates, written, session, profile, loading,
                   selectedLesson, fetches, user>>

\* the rows the query of loadCards selects for the student: with a lesson
\* id, the ids of the lesson's words are read first (wordsOk, else the data
\* is null) and the rows are filtered by them if there is any
Selected(student, lessonId, wordsOk) ==
    LET wordIds == IF lessonId # Nil /\ wordsOk
                   THEN {w.id : w \in {x \in lesson_words : x.lesson_id = lessonId}}
                   ELSE {}
        mine == {r \in review_cards : r.student_id = student}
    IN  IF wordIds # {} THEN {r \in mine : r.lesson_word_id \in wordIds} ELSE mine

\* the orders in which the store may return the rows S under
\* order("due_at", ascending) and limit(QueryLimit): rows of equal due_at
\* come in any order
Ordered(S) ==
    {SubSeq(q, 1, Min2(Len(q), QueryLimit)) :
        q \in {f \in [1 .. Cardinality(S) -> S] :
                  /\ \A i, j \in DOMAIN f : i < j =>
                         /\ f[i] # f[j]
                         /\ ParseISO(f[i].due_at) <= ParseISO(f[j].due_at)}}

\* loadCards(lessonId) followed by setShowAnswer(false), as both practice
\* handlers do: a failed query shows its error and leaves the cards
startPractice(lessonId, wordsOk, ok) ==
    /\ profile # Nil
    /\ selectedLesson' = lessonId
    /\ IF ok
       THEN /\ \E q \in Ordered(Selected(profile, lessonId, wordsOk)) :
                   cards' = [cards EXCEPT !["A"] = q]
            /\ UNCHANGED toast
       ELSE /\ toast' = [toast EXCEPT !["student"] = "Could not load cards"]
            /\ UNCHANGED cards
    /\ showAnswer' = FALSE
    /\ UNCHANGED <<card, clock, zone, last, prev, grades, origin, fresh, budget, ticks>>
    /\ UNCHANGED <<lesson_words, review_cards, busy, updates, written, session,
                   profile, loading, fetches, user>>

\* handlePracticeLesson(lesson), lesson one of the student's lessons
handlePracticeLesson(lesson, wordsOk, ok) ==
    /\ LessonStudent[lesson] = profile
    /\ startPractice(lesson, wordsOk, ok)

\* handlePracticeAll()
handlePracticeAll(ok) ==
    /\ profile # Nil
    /\ startPractice(Nil, TRUE, ok)

NextLessons ==
    \/ \E lesson \in Lessons, term \in Terms, wordOk, cardOk \in BOOLEAN :
           handleAddWord(lesson, term, wordOk, cardOk)
    \/ \E lesson \in Lessons, wordsOk, ok \in BOOLEAN :
           handlePracticeLesson(lesson, wordsOk, ok)
    \/ \E ok \in BOOLEAN : handlePracticeAll(ok)
    \/ \E d \in TickHours : Tick(d)

SpecLessons == InitLessons /\ [][NextLessons]_vars

----------------------------------------------------------------------------
(* Reviews of a card on the days it falls due *)

\* a card at the upper bound of the ease
CeilingCard ==
    [ease |-> Double(EaseMax), interval_days |-> 1, repetitions |-> 2,
     due_at |-> toISOString(clock), total_success |-> 2, total_fail |-> 0]

\* a card at the lower bound of the ease
FloorCard ==
    [ease |-> Double(EaseMin), interval_days |-> 3, repetitions |-> 2,
     due_at |-> toISOString(clock), total_success |-> 2, total_fail |-> 3]

\* the page opens at 2024-01-01T00:00Z in a runtime on UTC
InitScenario ==
    /\ zone = "UTC"
    /\ clock = MakeDate(MakeDay(2024, 0, 1), 0)
    /\ card \in {NewCard, CeilingCard, FloorCard}
    /\ fresh = (card = NewCard)
    /\ origin = card
    /\ budget = MaxReviews
    /\ cards = NoCards
    /\ last = NoCall
    /\ prev = NoCall
    /\ grades = << >>
    /\ ticks = 0
    /\ PageClosed

\* the wall clock reaches the instant the card falls due
WaitUntilDue ==
    /\ clock < ParseISO(card.due_at)
    /\ clock' = ParseISO(card.due_at)
    /\ UNCHANGED <<card, cards, zone, last, prev, grades, origin, fresh, budget, ticks>>
    /\ UNCHANGED pageVars

\* reviewCard(grade) of a card that is due
reviewWhenDue(grade, ok) ==
    /\ ParseISO(card.due_at) <= clock
    /\ reviewCard(grade, ok)

NextScenario ==
    \/ WaitUntilDue
    \/ \E grade \in Grade, ok \in BOOLEAN : reviewWhenDue(grade, ok)

SpecScenario == InitScenario /\ [][NextScenario]_vars

----------------------------------------------------------------------------
(* The scheduler called on its own *)

\* a value outside the type Grade, as a caller that is not type-checked can
\* pass
AnyGrade == Grade \cup {"easy"}

\* the good reviews in a row after which a card is taken below
LongStreak == 17

\* the learning state a good review makes of the learning state c (a state
\* without a streak count has had no review; the test also has c evaluated
\* before the fields below are)
Practised(c) ==
    IF c.repetitions = Null THEN c ELSE
    [ease |-> nextEase(c.ease, "good"),
     interval_days |-> nextInterval(c.interval_days,
                                    nextRepetitions(c.repetitions, "good"),
                                    nextEase(c.ease, "good")),
     repetitions |-> nextRepetitions(c.repetitions, "good"),
     due_at |-> NullDate,
     total_success |-> nextTotals(c.total_success, c.total_fail, "good").totalSuccess,
     total_fail |-> nextTotals(c.total_success, c.total_fail, "good").totalFail]

\* the learning state of a card after n good reviews in a row since it was
\* created
Learned[n \in 0 .. LongStreak + 1] ==
    IF n = 0
    THEN [ease |-> Double(EaseDefault), interval_days |-> 0, repetitions |-> 0,
          due_at |-> NullDate, total_success |-> 0, total_fail |-> 0]
    ELSE Practised(Learned[n - 1])

\* a card after a long streak of good reviews
FarCard == Learned[LongStreak]

\* card states the scheduler may be called on: each column by itself null
\* or not, the ease at and off its bounds
CallCards ==
    {[ease |-> e, interval_days |-> i, repetitions |-> r, due_at |-> NullDate,
      total_success |-> ts, total_fail |-> tf] :
        e \in {Null} \cup {Double(h) : h \in {100, 130, 250, 300, 320, 350}},
        i \in {Null, 0, 7}, r \in {Null, 0, 1, 2, 5},
        ts \in {Null, 0, 2}, tf \in {Null, 1}}
    \cup {FarCard}

InitCall ==
    /\ \E s \in Starts : zone = s[1] /\ clock = s[2]
    /\ fresh = FALSE
    /\ card \in CallCards
    /\ origin = card
    /\ budget = 0
    /\ cards = NoCards
    /\ last = NoCall
    /\ prev = NoCall
    /\ grades = << >>
    /\ ticks = 0
    /\ PageClosed

\* a scheduler that stores the defaults it reads in the card it was passed
CallFillsDefaults(grade) ==
    /\ last' = [called |-> TRUE, card |-> card, grade |-> grade, now |-> clock,
                ok |-> FALSE, out |-> nextReview(card, grade)]
    /\ card' = [card EXCEPT !.ease = Coalesce(@, Double(EaseDefault)),
                            !.interval_days = Coalesce(@, 0),
                            !.repetitions = Coalesce(@, 0),
                            !.total_success = Coalesce(@, 0),
                            !.total_fail = Coalesce(@, 0)]
    /\ UNCHANGED <<cards, clock, zone, prev, grades, origin, fresh, budget, ticks>>
    /\ UNCHANGED pageVars

\* nextReview(card, grade): the fields of card are read and a new object is
\* returned (or an exception thrown); nothing is assigned to
Call(grade) ==
    /\ last' = [called |-> TRUE, card |-> card, grade |-> grade, now |-> clock,
                ok |-> FALSE, out |-> nextReview(card, grade)]
    /\ UNCHANGED <<card, cards, clock, zone, prev, grades, origin, fresh, budget, ticks>>
    /\ UNCHANGED pageVars

NextCall == \E grade \in AnyGrade : Call(grade)

SpecCall == InitCall /\ [][NextCall]_vars

----------------------------------------------------------------------------
(* One practice session, the store answering an update some time after it  *)
(* was sent                                                                *)

\* the rows of the student's cards when the session begins: two new cards
\* and a card after a long streak, whose due date (which the scheduler does
\* not read) is a later day
PracticeRows ==
    <<Row(1, 1, "ann", NewCard), Row(2, 2, "ann", NewCard),
      Row(3, 3, "ann", [FarCard EXCEPT !.due_at = toISOString(clock + HoursPerDay)])>>

\* loadCards has filled the queue of the session, in the order of due_at
InitPractice ==
    /\ zone = "UTC"
    /\ clock = MakeDate(MakeDay(2024, 0, 30), 22)
    /\ fresh = TRUE
    /\ card = NewCard
    /\ origin = card
    /\ budget = MaxWrites
    /\ cards = [NoCards EXCEPT !["A"] = PracticeRows]
    /\ last = NoCall
    /\ prev = NoCall
    /\ grades = << >>
    /\ ticks = 0
    /\ lesson_words = {[id |-> i, lesson_id |-> "L1"] : i \in 1 .. Len(PracticeRows)}
    /\ review_cards = {PracticeRows[i] : i \in 1 .. Len(PracticeRows)}
    /\ toast = NoToast
    /\ showAnswer = FALSE /\ busy = FALSE /\ updates = << >> /\ written = << >>
    /\ session = "ann" /\ profile = "ann" /\ loading = FALSE /\ fetches = << >>
    /\ selectedLesson = Nil /\ user = session

\* a click on the card reveals its answer
revealAnswer ==
    /\ cards["A"] # << >>
    /\ showAnswer' = TRUE
    /\ UNCHANGED <<card, cards, clock, zone, last, prev, grades, origin, fresh, budget, ticks>>
    /\ UNCHANGED <<lesson_words, review_cards, toast, busy, updates, written,
                   session, profile, loading, selectedLesson, fetches, user>>

\* reviewCard(grade) up to its await, started by a grade button whatever
\* busy is
reviewCardSentWhileBusy(grade) ==
    /\ cards["A"] # << >>
    /\ showAnswer
    /\ Len(grades) + Len(updates) < budget
    /\ busy' = TRUE
    /\ \E next \in {nextReview(Head(cards["A"]), grade)} :
           updates' = IF next = RangeError THEN updates
                      ELSE Append(updates, [id |-> Head(cards["A"]).id,
                                            grade |-> grade, next |-> next])
    /\ UNCHANGED <<card, cards, clock, zone, last, prev, grades, origin, fresh, budget, ticks>>
    /\ UNCHANGED <<lesson_words, review_cards, toast, showAnswer, written,
                   session, profile, loading, selectedLesson, fetches, user>>

\* reviewCard(grade) up to its await: the grade buttons are rendered while
\* there is a current card with its answer shown and are disabled while
\* busy; busy is set, the scheduler called on the current card and the
\* update sent.  An exception of the scheduler ends the handler here, busy
\* left set.
reviewCardSent(grade) ==
    /\ cards["A"] # << >>
    /\ showAnswer
    /\ ~busy
    /\ Len(grades) + Len(updates) < budget
    /\ busy' = TRUE
    /\ \E next \in {nextReview(Head(cards["A"]), grade)} :
           updates' = IF next = RangeError THEN updates
                      ELSE Append(updates, [id |-> Head(cards["A"]).id,
                                            grade |-> grade, next |-> next])
    /\ UNCHANGED <<card, cards, clock, zone, last, prev, grades, origin, fresh, budget, ticks>>
    /\ UNCHANGED <<lesson_words, review_cards, toast, showAnswer, written,
                   session, profile, loading, selectedLesson, fetches, user>>

\* the sequence q without its i-th element
Without(q, i) == SubSeq(q, 1, i - 1) \o SubSeq(q, i + 1, Len(q))

\* a handler that drops the card and hides the answer whatever the store
\* answered
reviewCardResumedDropsAlways(i, ok) ==
    /\ i \in DOMAIN updates
    /\ updates' = Without(updates, i)
    /\ IF ok
       THEN /\ review_cards' =
                   {IF r.id = updates[i].id
                    THEN Row(r.id, r.lesson_word_id, r.student_id,
                             [ease |-> updates[i].next.ease,
                              interval_days |-> updates[i].next.intervalDays,
                              repetitions |-> updates[i].next.repetitions,
                              due_at |-> updates[i].next.dueAt,
                              total_success |-> updates[i].next.totalSuccess,
                              total_fail |-> updates[i].next.totalFail])
                    ELSE r : r \in review_cards}
            /\ written' = Append(written, updates[i].id)
            /\ grades' = Append(grades, updates[i].grade)
            /\ UNCHANGED toast
       ELSE /\ toast' = [toast EXCEPT !["student"] = "Could not update"]
            /\ UNCHANGED <<review_cards, written, grades>>
    /\ cards' = [cards EXCEPT !["A"] = Tail(@)]
    /\ showAnswer' = FALSE
    /\ busy' = FALSE
    /\ UNCHANGED <<card, clock, zone, last, prev, origin, fresh, budget, ticks>>
    /\ UNCHANGED <<lesson_words, session, profile, loading, selectedLesson, fetches, user>>

\* reviewCard from its await on: the store answers the i-th update in
\* flight.  If it was applied (ok) the row of that id has the six columns
\* sent, the first card is dropped from the queue and the answer hidden;
\* else the error is shown.  busy is cleared either way.
reviewCardResumed(i, ok) ==
    /\ i \in DOMAIN updates
    /\ updates' = Without(updates, i)
    /\ IF ok
       THEN /\ review_cards' =
                   {IF r.id = updates[i].id
                    THEN Row(r.id, r.lesson_word_id, r.student_id,
                             [ease |-> updates[i].next.ease,
                              interval_days |-> updates[i].next.intervalDays,
                              repetitions |-> updates[i].next.repetitions,
                              due_at |-> updates[i].next.dueAt,
                              total_success |-> updates[i].next.totalSuccess,
                              total_fail |-> updates[i].next.totalFail])
                    ELSE r : r \in review_cards}
            /\ written' = Append(written, updates[i].id)
            /\ grades' = Append(grades, updates[i].grade)
            /\ cards' = [cards EXCEPT !["A"] = Tail(@)]
            /\ showAnswer' = FALSE
            /\ UNCHANGED toast
       ELSE /\ toast' = [toast EXCEPT !["student"] = "Could not update"]
            /\ UNCHANGED <<review_cards, written, grades, cards, showAnswer>>
    /\ busy' = FALSE
    /\ UNCHANGED <<card, clock, zone, last, prev, origin, fresh, budget, ticks>>
    /\ UNCHANGED <<lesson_words, session, profile, loading, selectedLesson, fetches, user>>

NextPractice ==
    \/ revealAnswer
    \/ \E grade \in Grade : reviewCardSent(grade)
    \/ \E i \in 1 .. MaxWrites, ok \in BOOLEAN : reviewCardResumed(i, ok)
    \/ \E d \in TickHours : Tick(d)

SpecPractice == InitPractice /\ [][NextPractice]_vars

----------------------------------------------------------------------------
(* The page: who is signed in and whose profile is shown *)

\* people with an account
Users == Students

\* loadProfile(userId) up to its await: the spinner is set and the query
\* for the profile sent
loadProfile(userId, pending) ==
    /\ Len(pending) < MaxFetches
    /\ loading' = TRUE
    /\ fetches' = Append(pending, [op |-> "profiles", id |-> userId])

\* the page is mounted: nothing is known yet, the spinner shows, and
\* getSession() has been called; somebody may be signed in from an earlier
\* visit
InitHome ==
    /\ zone = "UTC"
    /\ clock = MakeDate(MakeDay(2024, 0, 30), 22)
    /\ fresh = TRUE
    /\ card = NewCard
    /\ origin = card
    /\ budget = 0
    /\ cards = NoCards
    /\ last = NoCall
    /\ prev = NoCall
    /\ grades = << >>
    /\ ticks = 0
    /\ lesson_words = {} /\ review_cards = {} /\ toast = NoToast
    /\ showAnswer = FALSE /\ busy = FALSE /\ updates = << >> /\ written = << >>
    /\ user \in Users \cup {Nil}
    /\ session = Nil /\ profile = Nil /\ loading = TRUE
    /\ fetches = <<[op |-> "getSession", id |-> Nil]>>
    /\ selectedLesson = Nil

\* what no step of the page itself changes
HomeUnchanged ==
    /\ UNCHANGED <<card, cards, clock, zone, last, prev, grades, origin, fresh, budget, ticks>>
    /\ UNCHANGED <<lesson_words, review_cards, showAnswer, busy, updates, written,
                   selectedLesson>>

\* the then-callback of getSession(): the session is stored and, if there
\* is one, its user's profile asked for; else the spinner is cleared
getSessionResolved(i) ==
    /\ i \in DOMAIN fetches /\ fetches[i].op = "getSession"
    /\ session' = user
    /\ IF user # Nil
       THEN loadProfile(user, Without(fetches, i))
       ELSE loading' = FALSE /\ fetches' = Without(fetches, i)
    /\ UNCHANGED <<user, profile, toast>>
    /\ HomeUnchanged

\* the callback of onAuthStateChange for an event that leaves the signed-in
\* user as it is (the initial session, a refreshed token)
onAuthStateChange ==
    /\ session' = user
    /\ IF user # Nil
       THEN loadProfile(user, fetches) /\ UNCHANGED profile
       ELSE profile' = Nil /\ UNCHANGED <<loading, fetches>>
    /\ UNCHANGED <<user, toast>>
    /\ HomeUnchanged

\* somebody signs in on the auth panel, shown while there is no session, and
\* the callback of onAuthStateChange runs for the new session
signIn(u) ==
    /\ session = Nil /\ user = Nil
    /\ user' = u
    /\ session' = u
    /\ loadProfile(u, fetches)
    /\ UNCHANGED <<profile, toast>>
    /\ HomeUnchanged

\* handleSignOut, on the button shown while there is a session: the client
\* signs out, the callback of onAuthStateChange runs without a session, and
\* the handler clears session and profile
handleSignOut ==
    /\ session # Nil
    /\ user' = Nil
    /\ session' = Nil
    /\ profile' = Nil
    /\ UNCHANGED <<loading, fetches, toast>>
    /\ HomeUnchanged

\* the Retry button of the error panel
retry ==
    /\ session # Nil /\ profile = Nil /\ ~loading
    /\ loadProfile(session, fetches)
    /\ UNCHANGED <<user, session, profile, toast>>
    /\ HomeUnchanged

\* loadProfile from its await on: the store answers the i-th query with the
\* profile of the id asked for (ok) or an error, which is shown; the
\* spinner is cleared
loadProfileResolved(i, ok) ==
    /\ i \in DOMAIN fetches /\ fetches[i].op = "profiles"
    /\ fetches' = Without(fetches, i)
    /\ IF ok
       THEN profile' = fetches[i].id /\ UNCHANGED toast
       ELSE /\ toast' = [toast EXCEPT !["student"] = "Could not load profile"]
            /\ UNCHANGED profile
    /\ loading' = FALSE
    /\ UNCHANGED <<user, session>>
    /\ HomeUnchanged

NextHome ==
    \/ \E i \in 1 .. MaxFetches : getSessionResolved(i)
    \/ onAuthStateChange
    \/ \E u \in Users : signIn(u)
    \/ handleSignOut
    \/ retry
    \/ \E i \in 1 .. MaxFetches, ok \in BOOLEAN : loadProfileResolved(i, ok)

SpecHome == InitHome /\ [][NextHome]_vars

----------------------------------------------------------------------------
(* Properties.  In the formulas below the values a call started from are   *)
(* the columns of last.card, an absent column read as its default.         *)

InEase == Coalesce(last.card.ease, Double(250))
InInterval == Coalesce(last.card.interval_days, 0)
InSuccess == Coalesce(last.card.total_success, 0)
InFail == Coalesce(last.card.total_fail, 0)

\* the value of x held to the range lo .. hi
Within(x, lo, hi) == IF x < lo THEN lo ELSE IF x > hi THEN hi ELSE x

\* C1: after any call, for every grade and every ease the card came with, in
\* the range or not, the returned ease lies in 1.3 .. 3.2, and so does the
\* stored ease once a review has been written.
C1_ClampInvariant ==
    /\ last.called => (Double(130) <= last.out.ease /\ last.out.ease <= Double(320))
    /\ Len(grades) >= 1 => (Double(130) <= card.ease /\ card.ease <= Double(320))

\* a good review of a card stored with an ease above the range
C1_Witness ==
    /\ last.called /\ last.ok
    /\ last.grade = "good"
    /\ last.card.ease = Double(350)
    /\ card.ease = Double(320)

C4_GrowthUsesOldIntervalNewEase ==
    (last.called /\ last.grade # "again" /\ last.out.repetitions >= 3) =>
        LET q == InInterval * Hundredths(last.out.ease) - 100 * last.out.intervalDays
        IN  /\ -50 <= q /\ q <= 50
            /\ q = 50 => Residue(last.out.ease) < 0

\* a third success where the old and the new ease round differently:
\* 7 * 1.5 = 10.5 gives 11, 7 * 1.45 = 10.15 would give 10
C4_Witness ==
    /\ last.called /\ last.grade = "good"
    /\ last.card.ease = Double(145) /\ last.card.interval_days = 7
    /\ last.card.repetitions = 2
    /\ last.out.ease = Double(150) /\ last.out.intervalDays = 11

\* C5: on a hard or good review intervalDays' is 1 when repetitions' is 1 and
\* 3 when repetitions' is 2, whatever the interval and ease of the card.
C5_FixedFirstIntervals ==
    (last.called /\ last.grade # "again") =>
        /\ last.out.repetitions = 1 => last.out.intervalDays = 1
        /\ last.out.repetitions = 2 => last.out.intervalDays = 3

\* a second success of a card that came with an interval of 7 days
C5_Witness ==
    /\ last.called /\ last.grade = "hard"
    /\ last.card.repetitions = 1 /\ last.card.interval_days = 7
    /\ last.out.repetitions = 2 /\ last.out.intervalDays = 3

\* C6: a review graded again returns repetitions 0 and intervalDays 1,
\* whatever the card came with.
C6_AgainResets ==
    (last.called /\ last.grade = "again") =>
        (last.out.repetitions = 0 /\ last.out.intervalDays = 1)

\* a lapse of a card with a streak of 5 and an interval of 7 days
C6_Witness ==
    /\ last.called /\ last.grade = "again"
    /\ last.card.repetitions = 5 /\ last.card.interval_days = 7
    /\ last.out.repetitions = 0 /\ last.out.intervalDays = 1

\* C7: a call adds one to exactly one lifetime counter: to totalFail on
\* again, to totalSuccess on hard or good, and leaves the other as it was.
C7_OneTotalMovesByOne ==
    last.called =>
        IF last.grade = "again"
        THEN last.out.totalFail = InFail + 1 /\ last.out.totalSuccess = InSuccess
        ELSE last.out.totalSuccess = InSuccess + 1 /\ last.out.totalFail = InFail

\* a hard review of a card with 2 successes and 1 failure
C7_Witness ==
    /\ last.called /\ last.grade = "hard"
    /\ last.card.total_success = 2 /\ last.card.total_fail = 1
    /\ last.out.totalSuccess = 3 /\ last.out.totalFail = 1

\* C8: on again, ease' is ease - 0.2 (the double the subtraction gives)
\* held to 1.3 .. 3.0, so at most 3.0 and at least 1.3 for every ease.
C8_AgainEase ==
    (last.called /\ last.grade = "again") =>
        /\ last.out.ease = Within(Minus(InEase, Double(20)), Double(130), Double(300))
        /\ Double(130) <= last.out.ease /\ last.out.ease <= Double(300)

\* a lapse at the ceiling 3.2: 3.2 - 0.2 = 3.0
C8_Witness ==
    /\ last.called /\ last.grade = "again"
    /\ last.card.ease = Double(320)
    /\ last.out.ease = Double(300)

\* C9: on good, ease' is ease + 0.05 held to 1.3 .. 3.2; on hard, ease' is
\* ease - 0.05 held to 1.3 .. 3.2 (sum and difference being the doubles the
\* operations give).
C9_SuccessEase ==
    last.called =>
        /\ last.grade = "good" =>
               last.out.ease = Within(Plus(InEase, Double(5)), Double(130), Double(320))
        /\ last.grade = "hard" =>
               last.out.ease = Within(Minus(InEase, Double(5)), Double(130), Double(320))

\* a hard review inside the range: 1.45 - 0.05 = 1.40
C9_Witness ==
    /\ last.called /\ last.grade = "hard"
    /\ last.card.ease = Double(145)
    /\ last.out.ease = Double(140)

\* the number of hard/good grades at the end of gs, after its last again
RECURSIVE Streak(_)
Streak(gs) ==
    IF gs = << >> \/ gs[Len(gs)] = "again" THEN 0
    ELSE 1 + Streak(SubSeq(gs, 1, Len(gs) - 1))

\* C10: after any sequence of reviews written one after another for a new
\* card, the stored repetitions is the number of hard/good grades since the
\* last again (since creation if there was none).
C10_RepetitionsIsStreak ==
    fresh => card.repetitions = Streak(grades)

\* a success, a lapse, two more successes
C10_Witness ==
    /\ fresh
    /\ Len(grades) = 4
    /\ grades[1] # "again" /\ grades[2] = "again"
    /\ grades[3] = "hard" /\ grades[4] = "good"
    /\ card.repetitions = 2

\* the number of grades of gs that lie in S
Count(gs, S) == Cardinality({i \in DOMAIN gs : gs[i] \in S})

\* C11: after any sequence of n reviews written one after another for a new
\* card, total_success is the number of hard/good grades of the sequence,
\* total_fail the number of again grades, and their sum is n.
C11_TotalsCountGrades ==
    fresh =>
        /\ card.total_success = Count(grades, {"hard", "good"})
        /\ card.total_fail = Count(grades, {"again"})
        /\ card.total_success + card.total_fail = Len(grades)

\* four reviews of a new card: a success, a lapse, a success, a lapse
C11_Witness ==
    /\ fresh
    /\ grades = <<"good", "again", "hard", "again">>
    /\ card.total_success = 2 /\ card.total_fail = 2

\* C12 as claimed: no review write lowers the total_success or the
\* total_fail stored for the card, also when two practice sessions that both
\* loaded the card write their results one after the other, each computed
\* from the card as the session loaded it.
C12_StoredTotalsNeverDecrease ==
    [][/\ card'.total_success >= card.total_success
       /\ card'.total_fail >= card.total_fail]_vars

\* the error the claim expects for a grade outside the three
InvalidGrade == [error |-> "InvalidGrade"]

\* C13 as claimed: a call with a grade that is not again, hard or good returns
\* no next state; it fails with InvalidGrade.
C13_UnknownGradeFails ==
    (last.called /\ last.grade \notin Grade) => last.out = InvalidGrade

\* C13, amended: the scheduler does not check the grade; a call with a grade
\* that is not again, hard or good ends as the call with hard on the same
\* card at the same time does, and never with InvalidGrade.
C13_UnknownGradeIsHard ==
    (last.called /\ last.grade \notin Grade) =>
        /\ last.out = nextReviewAt(zone, last.now, last.card, "hard")
        /\ last.out # InvalidGrade

\* a call with the grade easy on a card of ease 2.5 with a streak of 2
C13_Witness ==
    /\ last.called /\ last.grade = "easy"
    /\ last.card.ease = Double(250) /\ last.card.repetitions = 2
    /\ last.card.interval_days = 7 /\ last.card.total_success = 2
    /\ last.out # RangeError
    /\ last.out.ease = Double(245) /\ last.out.repetitions = 3
    /\ last.out.intervalDays = 17 /\ last.out.totalSuccess = 3

\* the card c with every absent column set to its documented default
Defaulted(c) ==
    [ease |-> IF c.ease = Null THEN Double(250) ELSE c.ease,
     interval_days |-> IF c.interval_days = Null THEN 0 ELSE c.interval_days,
     repetitions |-> IF c.repetitions = Null THEN 0 ELSE c.repetitions,
     due_at |-> c.due_at,
     total_success |-> IF c.total_success = Null THEN 0 ELSE c.total_success,
     total_fail |-> IF c.total_fail = Null THEN 0 ELSE c.total_fail]

\* C14: for every grade, a call on a card with any of ease, interval_days,
\* repetitions, total_success, total_fail absent ends as the call on the card
\* with these columns set to 2.5, 0, 0, 0, 0 does: with the same next state,
\* and with an error only where that call has one.
C14_AbsentFieldsReadAsDefaults ==
    last.called =>
        last.out = nextReviewAt(zone, last.now, Defaulted(last.card), last.grade)

\* a good review of a card without ease and total_success, the other columns
\* set: the ease is 2.5 + 0.05 and the first success is counted
C14_Witness ==
    /\ last.called /\ last.grade = "good"
    /\ last.card.ease = Null /\ last.card.total_success = Null
    /\ last.card.interval_days = 7 /\ last.card.repetitions = 2
    /\ last.card.total_fail = 1
    /\ last.out # RangeError
    /\ last.out.ease = Double(255) /\ last.out.intervalDays = 18
    /\ last.out.repetitions = 3
    /\ last.out.totalSuccess = 1 /\ last.out.totalFail = 1

\* C15: a call of the scheduler leaves the card it was passed as it was,
\* field by field, and changes nothing else: not the stored row, the cards
\* of a session, the reviews written or the clock; the next state is the
\* returned value only.
C15_CallLeavesCardAlone ==
    last.called =>
        /\ card = last.card /\ card = origin
        /\ cards = NoCards /\ grades = << >>
        /\ clock = last.now

\* a call that returned a next state for a card whose columns are all absent
C15_Witness ==
    /\ last.called /\ last.grade = "hard"
    /\ last.out # RangeError
    /\ last.out.ease = Double(245) /\ last.out.repetitions = 1
    /\ card.ease = Null /\ card.interval_days = Null /\ card.repetitions = Null
    /\ card.total_success = Null /\ card.total_fail = Null

InReps == Coalesce(last.card.repetitions, 0)

\* C16: on the same card at the same time, hard returns the repetitions, the
\* totalSuccess and the totalFail that good returns, the streak being one
\* longer than it was, and while repetitions' is 1 or 2 the same intervalDays
\* and dueAt; the ease is the old ease - 0.05 on hard and + 0.05 on good,
\* both held to 1.3 .. 3.2, so that the interval grown from it on hard is
\* never the longer one.
C16_HardAsGoodButEase ==
    (last.called /\ last.grade = "hard") =>
        LET good == nextReviewAt(zone, last.now, last.card, "good")
        IN  (last.out # RangeError /\ good # RangeError) =>
                /\ last.out.repetitions = good.repetitions
                /\ last.out.repetitions = InReps + 1
                /\ last.out.totalSuccess = good.totalSuccess
                /\ last.out.totalFail = good.totalFail
                /\ last.out.repetitions \in {1, 2} =>
                       /\ last.out.intervalDays = good.intervalDays
                       /\ last.out.dueAt = good.dueAt
                /\ last.out.ease = Within(Minus(InEase, Double(5)), Double(130), Double(320))
                /\ good.ease = Within(Plus(InEase, Double(5)), Double(130), Double(320))
                /\ last.out.ease <= good.ease
                /\ last.out.intervalDays <= good.intervalDays

\* a hard review that takes a streak from 5 to 6: the ease goes from 2.5 to
\* 2.45 where good takes it to 2.55, and the interval from 7 to 17 days where
\* good takes it to 18
C16_Witness ==
    /\ last.called /\ last.grade = "hard"
    /\ last.card.ease = Double(250) /\ last.card.repetitions = 5
    /\ last.card.interval_days = 7
    /\ last.out # RangeError
    /\ last.out.repetitions = 6
    /\ last.out.ease = Double(245) /\ last.out.intervalDays = 17
    /\ nextReviewAt(zone, last.now, last.card, "good").ease = Double(255)
    /\ nextReviewAt(zone, last.now, last.card, "good").intervalDays = 18

\* the timestamp of 00:00 UTC on the day d of month m of year y
Midnight(y, m, d) == [Y |-> y, M |-> m, D |-> d, h |-> 0]

\* the double next below the double x
Pred(x) == x - 100 * Granule(Hundredths(x), Residue(x) - 1)

\* C17 as claimed: a new card reviewed good on 2024-01-01, 2024-01-02 and
\* 2024-01-05 is stored after the first review with ease 2.55, interval 1,
\* repetitions 1, due 2024-01-02, totals 1 and 0, after the second with ease
\* 2.6, interval 3, repetitions 2, due 2024-01-05, after the third with ease
\* 2.65, interval 8, repetitions 3, due 2024-01-13.
C17_ThreeGoodsAsClaimed ==
    fresh =>
        /\ grades = <<"good">> =>
               card = [ease |-> Double(255), interval_days |-> 1, repetitions |-> 1,
                       due_at |-> Midnight(2024, 1, 2),
                       total_success |-> 1, total_fail |-> 0]
        /\ grades = <<"good", "good">> =>
               card = [ease |-> Double(260), interval_days |-> 3, repetitions |-> 2,
                       due_at |-> Midnight(2024, 1, 5),
                       total_success |-> 2, total_fail |-> 0]
        /\ grades = <<"good", "good", "good">> =>
               card = [ease |-> Double(265), interval_days |-> 8, repetitions |-> 3,
                       due_at |-> Midnight(2024, 1, 13),
                       total_success |-> 3, total_fail |-> 0]

\* C17, amended: the intervals, repetitions, due dates and totals are those
\* claimed and the first ease is 2.55; the second ease is the double next
\* below 2.6 (2.5999999999999996) and the third the double next below 2.65
\* (2.6499999999999995), the sums 2.55 + 0.05 and 2.5999999999999996 + 0.05
\* of doubles.
C17_ThreeGoods ==
    fresh =>
        /\ grades = <<"good">> =>
               card = [ease |-> Double(255), interval_days |-> 1, repetitions |-> 1,
                       due_at |-> Midnight(2024, 1, 2),
                       total_success |-> 1, total_fail |-> 0]
        /\ grades = <<"good", "good">> =>
               card = [ease |-> Pred(Double(260)), interval_days |-> 3, repetitions |-> 2,
                       due_at |-> Midnight(2024, 1, 5),
                       total_success |-> 2, total_fail |-> 0]
        /\ grades = <<"good", "good", "good">> =>
               card = [ease |-> Pred(Double(265)), interval_days |-> 8, repetitions |-> 3,
                       due_at |-> Midnight(2024, 1, 13),
                       total_success |-> 3, total_fail |-> 0]

\* the third good review of a new card, written on 2024-01-05
C17_Witness ==
    /\ fresh
    /\ grades = <<"good", "good", "good">>
    /\ last.ok /\ last.grade = "good"
    /\ toISOString(last.now) = Midnight(2024, 1, 5)
    /\ last.card.interval_days = 3
    /\ card.interval_days = 8 /\ card.due_at = Midnight(2024, 1, 13)

\* C18 as claimed: again on 2024-01-13, on the card three good reviews of a
\* new card leave, stores ease 2.45, repetitions 0, interval 1, due
\* 2024-01-14, total_fail 1 and total_success 3.
C18_LapseAsClaimed ==
    (fresh /\ grades = <<"good", "good", "good", "again">>) =>
        card = [ease |-> Double(245), interval_days |-> 1, repetitions |-> 0,
                due_at |-> Midnight(2024, 1, 14),
                total_success |-> 3, total_fail |-> 1]

\* C18, amended: repetitions, interval, due date and totals are those
\* claimed; the ease is 2.6499999999999995 - 0.2 = 2.4499999999999993, the
\* second double below 2.45.
C18_Lapse ==
    (fresh /\ grades = <<"good", "good", "good", "again">>) =>
        card = [ease |-> Pred(Pred(Double(245))), interval_days |-> 1, repetitions |-> 0,
                due_at |-> Midnight(2024, 1, 14),
                total_success |-> 3, total_fail |-> 1]

\* the lapse written on 2024-01-13 for a card that came with a streak of 3
\* and an interval of 8 days
C18_Witness ==
    /\ fresh
    /\ grades = <<"good", "good", "good", "again">>
    /\ last.ok /\ last.grade = "again"
    /\ toISOString(last.now) = Midnight(2024, 1, 13)
    /\ last.card.repetitions = 3 /\ last.card.interval_days = 8
    /\ card.repetitions = 0 /\ card.interval_days = 1 /\ card.total_success = 3

\* every grade of gs is g
AllOf(gs, g) == \A i \in DOMAIN gs : gs[i] = g

\* C19: a card that began with ease 3.2 has ease 3.2 exactly after any number
\* of good reviews in a row, and a card that began with ease 1.3 has ease
\* 1.3 exactly after any number of hard reviews in a row.
C19_BoundsAreFixedPoints ==
    /\ (origin.ease = Double(320) /\ AllOf(grades, "good")) => card.ease = Double(320)
    /\ (origin.ease = Double(130) /\ AllOf(grades, "hard")) => card.ease = Double(130)

\* four good reviews of a card that began at 3.2, or four hard reviews of a
\* card that began at 1.3
C19_Witness ==
    /\ Len(grades) = 4
    /\ \/ origin.ease = Double(320) /\ AllOf(grades, "good") /\ card.ease = Double(320)
       \/ origin.ease = Double(130) /\ AllOf(grades, "hard") /\ card.ease = Double(130)

\* C20 as claimed: every call with one of the three grades returns a next
\* state with all six fields and does not end in an error.
C20_Total ==
    (last.called /\ last.grade \in Grade) =>
        /\ last.out # RangeError
        /\ DOMAIN last.out = {"ease", "intervalDays", "repetitions", "dueAt",
                              "totalSuccess", "totalFail"}


\* C22: the stored learning state of the card changes only by the write of
\* a graded review, and that write sets all six columns to what the
\* scheduler returned.  Before any call the row is as it began; after a call
\* whose update the store applied, all six columns are the values the
\* scheduler returns for the card the call was made on, its grade and its
\* time, and that grade is the last of the reviews written; after a call
\* whose update failed, the row is the row the call was made on.
C22_OnlyReviewWritesAllFields ==
    /\ ~last.called => (card = origin /\ grades = << >>)
    /\ (last.called /\ last.ok) =>
           /\ card = [ease |-> last.out.ease,
                      interval_days |-> last.out.intervalDays,
                      repetitions |-> last.out.repetitions,
                      due_at |-> last.out.dueAt,
                      total_success |-> last.out.totalSuccess,
                      total_fail |-> last.out.totalFail]
           /\ last.out = nextReviewAt(zone, last.now, last.card, last.grade)
           /\ grades # << >> /\ grades[Len(grades)] = last.grade
    /\ (last.called /\ ~last.ok) => card = last.card

\* a review written for a stored card after the clock moved on
C22_Witness ==
    /\ ~fresh /\ Len(grades) = 1 /\ ticks = 1
    /\ last.called /\ last.ok /\ last.card = origin /\ last.now = clock
    /\ card.due_at = last.out.dueAt /\ card.ease = last.out.ease
    /\ card.repetitions = last.out.repetitions

\* C23 as claimed: every card a practice session holds for grading was due
\* when the session loaded its cards: its due_at, as loaded, is not after the
\* time of the load (the clock stands still in these behaviours).
C23_LoadedOnlyIfDue ==
    \A s \in Sessions :
        \A i \in DOMAIN cards[s] : ParseISO(cards[s][i].due_at) <= clock

\* C24: every review of a card that began as a new card returns an
\* intervalDays of at least 1 and a dueAt later than its now, and the card
\* as stored after a review has an interval of at least 1 day.
C24_DueAfterNow ==
    fresh =>
        /\ last.called =>
               /\ last.out.intervalDays >= 1
               /\ ParseISO(last.out.dueAt) > last.now
        /\ Len(grades) >= 1 => card.interval_days >= 1

\* a lapse of a card with an interval of several days, due the next day
C24_Witness ==
    /\ fresh /\ last.called /\ last.ok /\ last.grade = "again"
    /\ last.card.interval_days >= 3
    /\ last.out.intervalDays = 1
    /\ ParseISO(last.out.dueAt) > last.now

\* C25: a hard or good review that returns repetitions' of 3 or more returns
\* an intervalDays' greater than the interval_days the card came with, for
\* cards that began new and for cards at either bound of the ease.
C25_GrowthIsStrict ==
    (last.called /\ last.grade # "again" /\ last.out.repetitions >= 3) =>
        last.out.intervalDays > InInterval

\* a hard review at the lower bound of the ease: 3 days grow to 4
C25_Witness ==
    /\ last.called /\ last.grade = "hard"
    /\ last.card.ease = Double(130) /\ last.card.interval_days = 3
    /\ last.out.repetitions = 3 /\ last.out.ease = Double(130)
    /\ last.out.intervalDays = 4

\* C21: every review card that adding a word creates has ease 2.5, interval 0,
\* repetitions 0, both totals 0 and due_at the time of its creation, so that
\* it is due at once (its due_at is not after the clock of the next state).
C21_NewCardDefaults ==
    [][\A r \in review_cards' \ review_cards :
           /\ r.ease = Double(250) /\ r.interval_days = 0 /\ r.repetitions = 0
           /\ r.total_success = 0 /\ r.total_fail = 0
           /\ r.due_at = toISOString(clock)
           /\ ParseISO(r.due_at) <= clock']_vars

\* a card created after the clock moved on, for the word just added
C21_Witness ==
    /\ ticks >= 1
    /\ toast["teacher"] = "Word added!"
    /\ \E r \in review_cards :
           /\ r.lesson_word_id = Cardinality(lesson_words)
           /\ r.due_at = toISOString(clock) /\ r.ease = Double(250)

\* C26: when the store answers the update of a review, busy is false
\* afterwards; if the update was applied the first card is dropped from the
\* queue and the answer hidden; if it returned an error the queue and
\* showAnswer are as they were.  The queue changes and the answer is hidden
\* in no other step.
C26_DropOnlyOnSuccess ==
    [][/\ Len(updates') < Len(updates) =>
              /\ busy' = FALSE
              /\ IF written' # written
                 THEN cards'["A"] = Tail(cards["A"]) /\ showAnswer' = FALSE
                 ELSE cards' = cards /\ showAnswer' = showAnswer
       /\ (cards' # cards \/ (showAnswer /\ ~showAnswer')) =>
              Len(updates') < Len(updates) /\ written' # written]_vars

\* the store has refused the update of the second card: the card is still
\* the current one, its answer shown, and the buttons are enabled again
C26_Witness ==
    /\ written = <<1>> /\ updates = << >>
    /\ toast["student"] = "Could not update"
    /\ Len(cards["A"]) = 2 /\ Head(cards["A"]).id = 2
    /\ showAnswer /\ ~busy

\* C27: under every interleaving of grade clicks and answers of the store
\* in one practice session, at most one update is in flight, it is the
\* update of the current card and busy is set while it is; and the cards
\* that have left the queue are exactly the cards written to the store, in
\* the order of the queue, each written once.
C27_OneWritePerDisplay ==
    /\ Len(updates) <= 1
    /\ updates # << >> => (busy /\ cards["A"] # << >> /\ updates[1].id = Head(cards["A"]).id)
    /\ written \o [i \in DOMAIN cards["A"] |-> cards["A"][i].id]
           = [i \in DOMAIN PracticeRows |-> PracticeRows[i].id]

\* two cards written, one of them at the second attempt, the third current
C27_Witness ==
    /\ written = <<1, 2>> /\ updates = << >>
    /\ toast["student"] = "Could not update"
    /\ Len(cards["A"]) = 1 /\ Head(cards["A"]).id = 3
    /\ ~busy

\* C29 as claimed: when the teacher's page shows "Word added!", every lesson
\* word in the store has a review card of its lesson's student in the store.
C29_SuccessMeansWordAndCard ==
    toast["teacher"] = "Word added!" =>
        \A w \in lesson_words :
            \E r \in review_cards :
                r.lesson_word_id = w.id /\ r.student_id = LessonStudent[w.lesson_id]

\* C30 as claimed: after a practice session was started for a lesson and its
\* cards were loaded without an error, every card of the session belongs to
\* a word of that lesson (there is none if the lesson has no words).
C30_OnlyLessonCards ==
    (selectedLesson # Nil /\ toast["student"] = Nil) =>
        \A i \in DOMAIN cards["A"] :
            \E w \in lesson_words :
                w.id = cards["A"][i].lesson_word_id /\ w.lesson_id = selectedLesson

\* C28 as claimed: whenever a dashboard is displayed (a session, a profile,
\* no spinner), the profile is that of the session's user.
C28_DashboardShowsOwnProfile ==
    (session # Nil /\ profile # Nil /\ ~loading) => profile = session

====
